---- MODULE Spec2Model ----
(***************************************************************************)
(* KmlExportProcessingAlgorithm.processAlgorithm (src/export_kml.py):      *)
(* stage every input layer into temp_layers.gpkg, convert the container    *)
(* to KML, delete the container.  The layer-save service, the conversion   *)
(* service, os.remove and the feedback's cancel flag are the environment.  *)
(***************************************************************************)
EXTENDS Integers, Sequences, FiniteSets, TLC

\* ------------------------------------------------------------------ bounds
\* longest layer list of the fault-injecting specification
MaxLayers == 3
\* longest layer list of the fault-free specification
MaxLongLayers == 50

\* ---------------------------------------------- Python float arithmetic
\* A positive double is [m |-> its 53 significand bits, most significant
\* first and leading bit 1, e |-> the binary exponent of the leading bit].
\* Bit sequences are handled in limbs of 16 bits to stay within the
\* evaluator's integers.
MantissaBits == 53

\* F(x) with x evaluated once, before F
Bind(x, F(_)) == CHOOSE y \in {F(v) : v \in {x}} : TRUE
Limb == [bits |-> 16, base |-> 2^16]

RECURSIVE Scale(_, _)
\* 0 < a < b: the k >= 1 with 2^-k <= a/b < 2^-(k-1), and r = a * 2^(k-1)
Scale(a, b) ==
    IF 2 * a >= b THEN [r |-> a, k |-> 1]
    ELSE Bind(Scale(2 * a, b), LAMBDA s : [r |-> s.r, k |-> s.k + 1])

RECURSIVE Pow2Mod(_, _)
\* 2^j mod b, by squaring
Pow2Mod(j, b) ==
    IF j = 0 THEN 1 % b
    ELSE Bind(Pow2Mod(j \div 2, b), LAMBDA h :
             (h * h * (IF j % 2 = 1 THEN 2 ELSE 1)) % b)

\* the remainder of the long division of r by b after j bits
Remainder(r, b, j) == (r * Pow2Mod(j, b)) % b

\* the first n bits of the binary expansion of r/b (r < b) and the remainder
Expand(r, b, n) ==
    [bits |-> [j \in 1..n |-> IF 2 * Remainder(r, b, j - 1) >= b THEN 1 ELSE 0],
     r    |-> Remainder(r, b, n)]

\* bits + 1, most significant bit first (one bit longer on carry out)
Increment(bits) ==
    Bind({j \in 1..Len(bits) : bits[j] = 0}, LAMBDA zeros :
        IF zeros = {} THEN <<1>> \o [j \in 1..Len(bits) |-> 0]
        ELSE Bind(CHOOSE j \in zeros : \A k \in zeros : k <= j, LAMBDA z :
                 [j \in 1..Len(bits) |->
                     IF j < z THEN bits[j] ELSE IF j = z THEN 1 ELSE 0]))

\* round-half-to-even of the exact bits p (leading bit 1, exponent e) to
\* MantissaBits bits; sticky says that a non-zero tail follows p
RoundNearestEven(p, sticky, e) ==
    LET guard == IF Len(p) > MantissaBits THEN p[MantissaBits + 1] ELSE 0
        tail  == sticky \/ \E j \in (MantissaBits + 2)..Len(p) : p[j] = 1
        up    == guard = 1 /\ (tail \/ p[MantissaBits] = 1)
    IN  Bind(SubSeq(p, 1, MantissaBits), LAMBDA m :
            IF ~up THEN [m |-> m, e |-> e]
            ELSE Bind(Increment(m), LAMBDA inc :
                     IF Len(inc) = MantissaBits THEN [m |-> inc, e |-> e]
                     ELSE [m |-> SubSeq(inc, 1, MantissaBits), e |-> e + 1]))

\* a / b for ints 0 < a < b (Python's true division, correctly rounded)
FloatDiv(a, b) ==
    Bind(Scale(a, b), LAMBDA s :
        Bind(Expand(s.r, b, MantissaBits + 1), LAMBDA x :
            RoundNearestEven(x.bits, x.r # 0, 0 - s.k)))

RECURSIVE BitsToNat(_)
\* the number whose bits these are, most significant first
BitsToNat(bits) ==
    IF Len(bits) = 0 THEN 0
    ELSE IF Len(bits) = 1 THEN bits[1]
    ELSE LET h == Len(bits) \div 2
         IN  Bind(SubSeq(bits, 1, Len(bits) - h), LAMBDA high : BitsToNat(high)) * 2^h
             + Bind(SubSeq(bits, Len(bits) - h + 1, Len(bits)),
                    LAMBDA low : BitsToNat(low))

\* the w low bits of n, most significant first
NatToBits(n, w) == [j \in 1..w |-> (n \div 2^(w - j)) % 2]

\* bits without its leading zeros
Normalised(bits) ==
    Bind({j \in 1..Len(bits) : bits[j] = 1}, LAMBDA ones :
        IF ones = {} THEN <<>>
        ELSE SubSeq(bits, CHOOSE j \in ones : \A k \in ones : j <= k, Len(bits)))

\* the limbs of bits, least significant limb first
Limbs(bits) ==
    LET n == (Len(bits) + Limb.bits - 1) \div Limb.bits
    IN  Bind([j \in 1..(n * Limb.bits - Len(bits)) |-> 0] \o bits, LAMBDA pad :
            [k \in 1..n |->
                Bind(SubSeq(pad, (n - k) * Limb.bits + 1, (n - k + 1) * Limb.bits),
                     LAMBDA limb : BitsToNat(limb))])

RECURSIVE MulLimbs(_, _, _)
\* limbs * c + carry, as limbs, least significant first
MulLimbs(limbs, c, carry) ==
    IF limbs = <<>> THEN <<carry>>
    ELSE Bind(Head(limbs) * c + carry, LAMBDA t :
             <<t % Limb.base>> \o MulLimbs(Tail(limbs), c, t \div Limb.base))

RECURSIVE LimbsToBits(_)
\* the bits of limbs (least significant limb first), most significant first
LimbsToBits(limbs) ==
    IF limbs = <<>> THEN <<>>
    ELSE LimbsToBits(Tail(limbs)) \o NatToBits(Head(limbs), Limb.bits)

\* x * c for a positive double x and an int 1 <= c < 2^15,
\* correctly rounded
FloatMul(x, c) ==
    Bind(Limbs(x.m), LAMBDA limbs :
        Bind(MulLimbs(limbs, c, 0), LAMBDA product :
            Bind(LimbsToBits(product), LAMBDA bits :
                Bind(Normalised(bits), LAMBDA p :
                    RoundNearestEven(p, FALSE, x.e + (Len(p) - MantissaBits))))))

\* int(x) for a positive double below 2^31: truncation
PyInt(x) ==
    IF x.e < 0 THEN 0
    ELSE Bind(SubSeq(x.m, 1, x.e + 1), LAMBDA whole : BitsToNat(whole))

\* the share of the steps still to do
ProgressValueRemaining(current, total_steps) ==
    Bind(FloatDiv(total_steps - (current + 1), total_steps), LAMBDA quotient :
        Bind(FloatMul(quotient, 100), LAMBDA percent : PyInt(percent)))

\* int((current + 1) / total_steps * 100)
ProgressValue(current, total_steps) ==
    Bind(FloatDiv(current + 1, total_steps), LAMBDA quotient :
        Bind(FloatMul(quotient, 100), LAMBDA percent : PyInt(percent)))

\* ------------------------------------------------------------ layer names
\* A layer name is a base string followed by the "_<k>" suffixes appended to
\* it: "a" is [base |-> "a", sfx |-> <<>>], "a_1" is [base |-> "a", sfx |-> <<1>>].
Name(base) == [base |-> base, sfx |-> <<>>]

\* f"{original_layer_name}_{suffix}"
Suffixed(original_layer_name, suffix) ==
    [base |-> original_layer_name.base,
     sfx  |-> Append(original_layer_name.sfx, suffix)]

NoName == Name("")
LayerNames == {Name("a"), Suffixed(Name("a"), 1), Name("b")}

ResolveFromFirstSuffix(original_layer_name, used, suffix) ==
    Suffixed(original_layer_name, suffix)

RECURSIVE ResolveFrom(_, _, _)
\* while layer_name in used_layer_names: next suffix
ResolveFrom(original_layer_name, used, suffix) ==
    LET candidate == Suffixed(original_layer_name, suffix)
    IN  IF candidate \in used
        THEN ResolveFrom(original_layer_name, used, suffix + 1)
        ELSE candidate

ResolveNameKeepOriginal(original_layer_name, used) == original_layer_name

\* the container-internal name of a layer, given the names already used
ResolveName(original_layer_name, used) ==
    IF original_layer_name \in used
    THEN ResolveFrom(original_layer_name, used, 1)
    ELSE original_layer_name

\* ------------------------------------------------------------------ files
OutputPath == "out.kml"
TempGpkg == "temp_layers.gpkg"
OutputPaths == {"", OutputPath}

\* the container file: whether it exists and the layers it holds, each with
\* the run that wrote it ("stale": left by an earlier run)
NoFile == [exists |-> FALSE, layers |-> {}]
StaleGpkg == [exists |-> TRUE, layers |-> {[name |-> Name("a"), src |-> "stale"]}]

ActionOnExistingFileAlwaysFile(current) == 0

\* save_options['ACTION_ON_EXISTING_FILE']: 0 creates or overwrites the file,
\* 1 creates or overwrites the layer
ActionOnExistingFile(current) == IF current = 0 THEN 0 ELSE 1

\* native:savefeatures succeeded: the container after the write
Written(gpkg, name, mode) ==
    LET entry == [name |-> name, src |-> "run"]
    IN  IF mode = 0 \/ ~gpkg.exists
        THEN [exists |-> TRUE, layers |-> {entry}]
        ELSE [exists |-> TRUE,
              layers |-> {l \in gpkg.layers : l.name # name} \cup {entry}]

\* native:savefeatures failed midway: a half-written container
HalfWritten(gpkg, mode) ==
    IF mode = 0 \/ ~gpkg.exists
    THEN [exists |-> TRUE, layers |-> {}]
    ELSE gpkg

SaveOutcomes == {"ok", "silent", "error", "error_partial"}
ConvertOutcomes == {"ok", "silent", "error"}

\* ------------------------------------------------------------- exceptions
Exc(type, text, layer, cause, path) ==
    [type |-> type, text |-> text, layer |-> layer, cause |-> cause, path |-> path]
NoExc == Exc("none", "", NoName, "", "")

ValidationErrorInputsOnly(layers, out) ==
    IF layers = <<>>
    THEN Exc("QgsProcessingException", "NoInputLayers", NoName, "", "")
    ELSE NoExc

\* the two guards of the head of processAlgorithm
ValidationError(layers, out) ==
    IF layers = <<>>
    THEN Exc("QgsProcessingException", "NoInputLayers", NoName, "", "")
    ELSE IF out = ""
    THEN Exc("QgsProcessingException", "NoOutputPath", NoName, "", "")
    ELSE NoExc

SaveExceptReraises(name, cause, removeFailed) ==
    Exc("Exception", cause, NoName, "", "")

\* what leaves the handler of a failed layer write: after the inner
\* "except Exception as e" has run, e is unbound and str(e) raises
SaveExceptRaises(name, cause, removeFailed) ==
    IF removeFailed
    THEN Exc("UnboundLocalError", "e", NoName, "", "")
    ELSE Exc("QgsProcessingException", "AddLayerError", name, cause, "")

RemoveKeeps(gpkg, rmOk) == gpkg

\* if os.path.exists(temp_gpkg): os.remove(temp_gpkg)
Remove(gpkg, rmOk) == IF gpkg.exists /\ rmOk THEN NoFile ELSE gpkg

\* ------------------------------------------------------------------ state
VARIABLES
    pc,                \* position in processAlgorithm
    input_layers,      \* the names of the input layers, in order
    output_kml,        \* the destination path ("" when unset)
    kml_file,          \* the destination file: "absent", "stale" or "fresh"
    temp_gpkg,         \* the container file
    canceled,          \* feedback.isCanceled()
    total_steps,
    used_layer_names,
    current,           \* 0-based index of the loop's next layer
    layer_name,
    e,                 \* the exception bound in the running except clause
    raised,            \* the exception leaving the try statement
    result,            \* how the call ended
    progressLog,       \* the values given to feedback.setProgress
    saveLog,           \* the calls of native:savefeatures
    convertLog,        \* the calls of gdal:convertformat
    fsLog,             \* the calls of os.path.exists and os.remove
    pollLog            \* the calls of feedback.isCanceled

vars == <<pc, input_layers, output_kml, kml_file, temp_gpkg, canceled,
          total_steps, used_layer_names, current, layer_name, e, raised,
          result, progressLog, saveLog, convertLog, fsLog, pollLog>>

Running == [status |-> "running", value |-> "", exc |-> NoExc]
Returned(path) == [status |-> "returned", value |-> path, exc |-> NoExc]
Raised(x) == [status |-> "raised", value |-> "", exc |-> x]

Exists(path, res) == [op |-> "exists", path |-> path, res |-> res]
Removal(path, res) == [op |-> "remove", path |-> path, res |-> res]

\* the os calls of "if os.path.exists(p): os.remove(p)"
RemoveCalls(path, there, rmOk) ==
    IF there THEN <<Exists(path, TRUE), Removal(path, rmOk)>>
    ELSE <<Exists(path, FALSE)>>

LayerLists(n) == UNION {[1..k -> LayerNames] : k \in 0..n}

Start ==
    /\ pc = "start"
    /\ canceled = FALSE
    /\ total_steps = 0
    /\ used_layer_names = {}
    /\ current = 0
    /\ layer_name = NoName
    /\ e = NoExc
    /\ raised = NoExc
    /\ result = Running
    /\ progressLog = <<>>
    /\ saveLog = <<>>
    /\ convertLog = <<>>
    /\ fsLog = <<>>
    /\ pollLog = <<>>

Init ==
    /\ input_layers \in LayerLists(MaxLayers)
    /\ output_kml \in OutputPaths
    /\ kml_file \in {"absent", "stale"}
    /\ temp_gpkg \in {NoFile, StaleGpkg}
    /\ Start

\* a clean slate and 1..MaxLongLayers layers of one name
InitLong ==
    /\ \E n \in 1..MaxLongLayers : input_layers = [j \in 1..n |-> Name("a")]
    /\ output_kml = OutputPath
    /\ kml_file = "absent"
    /\ temp_gpkg = NoFile
    /\ Start

\* ---------------------------------------------------------------- actions
Raise(x) == /\ result' = Raised(x)
            /\ pc' = "done"

\* the input checks
ValidateInputs ==
    /\ pc = "start"
    /\ LET x == ValidationError(input_layers, output_kml)
       IN  IF x # NoExc
           THEN Raise(x)
           ELSE /\ pc' = "clean_output"
                /\ UNCHANGED result
    /\ UNCHANGED <<input_layers, output_kml, kml_file, temp_gpkg, canceled,
                   total_steps, used_layer_names, current, layer_name, e,
                   raised, progressLog, saveLog, convertLog, fsLog,
                   pollLog>>

CleanOutputSkipped(rmOk) ==
    /\ pc = "clean_output"
    /\ pc' = "prepare"
    /\ UNCHANGED <<input_layers, output_kml, kml_file, temp_gpkg, canceled,
                   total_steps, used_layer_names, current, layer_name, e,
                   raised, result, progressLog, saveLog, convertLog, fsLog,
                   pollLog>>

\* delete an existing destination file (os.remove is not guarded)
CleanOutput(rmOk) ==
    /\ pc = "clean_output"
    /\ fsLog' = fsLog \o RemoveCalls(output_kml, kml_file # "absent", rmOk)
    /\ IF kml_file # "absent" /\ ~rmOk
       THEN /\ Raise(Exc("OSError", "remove", NoName, "", output_kml))
            /\ UNCHANGED kml_file
       ELSE /\ kml_file' = "absent"
            /\ pc' = "prepare"
            /\ UNCHANGED result
    /\ UNCHANGED <<input_layers, output_kml, temp_gpkg, canceled, total_steps,
                   used_layer_names, current, layer_name, e, raised,
                   progressLog, saveLog, convertLog,
                   pollLog>>

PrepareContainerKeepsStale(rmOk) ==
    /\ pc = "prepare"
    /\ total_steps' = Len(input_layers) + 1
    /\ used_layer_names' = {}
    /\ pc' = "loop"
    /\ UNCHANGED <<input_layers, output_kml, kml_file, temp_gpkg, canceled,
                   current, layer_name, e, raised, result, progressLog,
                   saveLog, convertLog, fsLog, pollLog>>

\* total_steps, the stale container, the empty used-name set
PrepareContainer(rmOk) ==
    /\ pc = "prepare"
    /\ total_steps' = Len(input_layers) + 1
    /\ fsLog' = fsLog \o RemoveCalls(TempGpkg, temp_gpkg.exists, rmOk)
    /\ IF temp_gpkg.exists /\ ~rmOk
       THEN /\ Raise(Exc("OSError", "remove", NoName, "", TempGpkg))
            /\ UNCHANGED temp_gpkg
       ELSE /\ temp_gpkg' = Remove(temp_gpkg, rmOk)
            /\ pc' = "loop"
            /\ UNCHANGED result
    /\ used_layer_names' = {}
    /\ UNCHANGED <<input_layers, output_kml, kml_file, canceled, current,
                   layer_name, e, raised, progressLog, saveLog, convertLog,
                   pollLog>>

LoopHeadNoPoll ==
    /\ pc = "loop"
    /\ pc' = IF current = Len(input_layers) THEN "verify_container" ELSE "resolve"
    /\ UNCHANGED <<input_layers, output_kml, kml_file, temp_gpkg, canceled,
                   total_steps, used_layer_names, current, layer_name, e,
                   raised, result, progressLog, saveLog, convertLog, fsLog,
                   pollLog>>

\* the head of the for loop: the next layer, if any, and then the
\* cancellation poll
LoopHead ==
    /\ pc = "loop"
    /\ IF current = Len(input_layers)
       THEN /\ pc' = "verify_container"
            /\ UNCHANGED pollLog
       ELSE /\ pollLog' = Append(pollLog, [index |-> current, res |-> canceled])
            /\ pc' = IF canceled THEN "verify_container" ELSE "resolve"
    /\ UNCHANGED <<input_layers, output_kml, kml_file, temp_gpkg, canceled,
                   total_steps, used_layer_names, current, layer_name, e,
                   raised, result, progressLog, saveLog, convertLog, fsLog>>

\* the collision-free name of the current layer
ResolveLayerName ==
    /\ pc = "resolve"
    /\ layer_name' = ResolveName(input_layers[current + 1], used_layer_names)
    /\ used_layer_names' = used_layer_names \cup {layer_name'}
    /\ pc' = "save"
    /\ UNCHANGED <<input_layers, output_kml, kml_file, temp_gpkg, canceled,
                   total_steps, current, e, raised, result, progressLog,
                   saveLog, convertLog, fsLog,
                   pollLog>>

\* processing.run("native:savefeatures", ...)
SaveFeatures(outcome) ==
    /\ pc = "save"
    /\ LET mode == ActionOnExistingFile(current) IN
       /\ saveLog' = Append(saveLog, [index |-> current, name |-> layer_name,
                                      mode |-> mode, outcome |-> outcome])
       /\ temp_gpkg' = CASE outcome = "ok" -> Written(temp_gpkg, layer_name, mode)
                         [] outcome = "error_partial" -> HalfWritten(temp_gpkg, mode)
                         [] OTHER -> temp_gpkg
    /\ IF outcome \in {"ok", "silent"}
       THEN /\ pc' = "progress"
            /\ UNCHANGED e
       ELSE /\ pc' = "save_except"
            /\ e' = Exc("Exception", "SaveError", NoName, "", "")
    /\ UNCHANGED <<input_layers, output_kml, kml_file, canceled, total_steps,
                   used_layer_names, current, layer_name, raised, result,
                   progressLog, convertLog, fsLog,
                   pollLog>>

\* the handler of a failed layer write
SaveExcept(rmOk) ==
    /\ pc = "save_except"
    /\ fsLog' = fsLog \o RemoveCalls(TempGpkg, temp_gpkg.exists, rmOk)
    /\ temp_gpkg' = Remove(temp_gpkg, rmOk)
    /\ Raise(SaveExceptRaises(layer_name, e.text, temp_gpkg.exists /\ ~rmOk))
    /\ e' = NoExc
    /\ UNCHANGED <<input_layers, output_kml, kml_file, canceled, total_steps,
                   used_layer_names, current, layer_name, raised, progressLog,
                   saveLog, convertLog,
                   pollLog>>

\* feedback.setProgress(...) and the step to the next layer
SetProgress ==
    /\ pc = "progress"
    /\ progressLog' = Append(progressLog, ProgressValue(current, total_steps))
    /\ current' = current + 1
    /\ pc' = "loop"
    /\ UNCHANGED <<input_layers, output_kml, kml_file, temp_gpkg, canceled,
                   total_steps, used_layer_names, layer_name, e, raised,
                   result, saveLog, convertLog, fsLog,
                   pollLog>>

VerifyContainerSkipped ==
    /\ pc = "verify_container"
    /\ pc' = "convert"
    /\ UNCHANGED <<input_layers, output_kml, kml_file, temp_gpkg, canceled,
                   total_steps, used_layer_names, current, layer_name, e,
                   raised, result, progressLog, saveLog, convertLog, fsLog,
                   pollLog>>

\* the container must exist after the loop
VerifyContainer ==
    /\ pc = "verify_container"
    /\ fsLog' = Append(fsLog, Exists(TempGpkg, temp_gpkg.exists))
    /\ IF temp_gpkg.exists
       THEN /\ pc' = "convert"
            /\ UNCHANGED result
       ELSE Raise(Exc("QgsProcessingException", "GpkgNotCreated", NoName, "", TempGpkg))
    /\ UNCHANGED <<input_layers, output_kml, kml_file, temp_gpkg, canceled,
                   total_steps, used_layer_names, current, layer_name, e,
                   raised, progressLog, saveLog, convertLog,
                   pollLog>>

\* processing.run("gdal:convertformat", ...)
ConvertFormat(outcome) ==
    /\ pc = "convert"
    /\ convertLog' = Append(convertLog, [layers |-> temp_gpkg.layers,
                                         outcome |-> outcome])
    /\ kml_file' = IF outcome = "ok" THEN "fresh" ELSE kml_file
    /\ IF outcome = "error"
       THEN /\ pc' = "convert_except"
            /\ e' = Exc("Exception", "GdalError", NoName, "", "")
       ELSE /\ pc' = "verify_output"
            /\ UNCHANGED e
    /\ UNCHANGED <<input_layers, output_kml, temp_gpkg, canceled, total_steps,
                   used_layer_names, current, layer_name, raised, result,
                   progressLog, saveLog, fsLog,
                   pollLog>>

\* the output check, inside the try statement
VerifyOutput ==
    /\ pc = "verify_output"
    /\ fsLog' = Append(fsLog, Exists(output_kml, kml_file # "absent"))
    /\ IF kml_file # "absent"
       THEN /\ pc' = "finally"
            /\ UNCHANGED e
       ELSE /\ pc' = "convert_except"
            /\ e' = Exc("QgsProcessingException", "KmlNotGenerated", NoName, "",
                        output_kml)
    /\ UNCHANGED <<input_layers, output_kml, kml_file, temp_gpkg, canceled,
                   total_steps, used_layer_names, current, layer_name, raised,
                   result, progressLog, saveLog, convertLog,
                   pollLog>>

\* "except Exception as e" of the conversion: wrap and raise again
ConvertExcept ==
    /\ pc = "convert_except"
    /\ raised' = Exc("QgsProcessingException", "ConvertError", NoName, e.text, e.path)
    /\ e' = NoExc
    /\ pc' = "finally"
    /\ UNCHANGED <<input_layers, output_kml, kml_file, temp_gpkg, canceled,
                   total_steps, used_layer_names, current, layer_name, result,
                   progressLog, saveLog, convertLog, fsLog,
                   pollLog>>

FinallyEscalates(rmOk) ==
    /\ pc = "finally"
    /\ fsLog' = fsLog \o RemoveCalls(TempGpkg, temp_gpkg.exists, rmOk)
    /\ temp_gpkg' = Remove(temp_gpkg, rmOk)
    /\ IF temp_gpkg.exists /\ ~rmOk
       THEN Raise(Exc("OSError", "remove", NoName, "", TempGpkg))
       ELSE IF raised # NoExc
       THEN Raise(raised)
       ELSE /\ pc' = "return"
            /\ UNCHANGED result
    /\ UNCHANGED <<input_layers, output_kml, kml_file, canceled, total_steps,
                   used_layer_names, current, layer_name, e, raised,
                   progressLog, saveLog, convertLog, pollLog>>

\* the finally clause: delete the container, a failure is only logged
Finally(rmOk) ==
    /\ pc = "finally"
    /\ fsLog' = fsLog \o RemoveCalls(TempGpkg, temp_gpkg.exists, rmOk)
    /\ temp_gpkg' = Remove(temp_gpkg, rmOk)
    /\ IF raised # NoExc
       THEN Raise(raised)
       ELSE /\ pc' = "return"
            /\ UNCHANGED result
    /\ UNCHANGED <<input_layers, output_kml, kml_file, canceled, total_steps,
                   used_layer_names, current, layer_name, e, raised,
                   progressLog, saveLog, convertLog,
                   pollLog>>

ReturnWithoutResult ==
    /\ pc = "return"
    /\ pc' = "done"
    /\ UNCHANGED <<input_layers, output_kml, kml_file, temp_gpkg, canceled,
                   total_steps, used_layer_names, current, layer_name, e,
                   raised, result, progressLog, saveLog, convertLog, fsLog,
                   pollLog>>

\* return {self.OUTPUT: output_kml}
Return ==
    /\ pc = "return"
    /\ result' = Returned(output_kml)
    /\ pc' = "done"
    /\ UNCHANGED <<input_layers, output_kml, kml_file, temp_gpkg, canceled,
                   total_steps, used_layer_names, current, layer_name, e,
                   raised, progressLog, saveLog, convertLog, fsLog,
                   pollLog>>

\* the user cancels
Cancel ==
    /\ pc # "done"
    /\ ~canceled
    /\ canceled' = TRUE
    /\ UNCHANGED <<pc, input_layers, output_kml, kml_file, temp_gpkg,
                   total_steps, used_layer_names, current, layer_name, e,
                   raised, result, progressLog, saveLog, convertLog, fsLog,
                   pollLog>>

CleanOutputStep == \E rmOk \in BOOLEAN : CleanOutput(rmOk)
PrepareContainerStep == \E rmOk \in BOOLEAN : PrepareContainer(rmOk)
SaveFeaturesStep == \E outcome \in SaveOutcomes : SaveFeatures(outcome)
SaveExceptStep == \E rmOk \in BOOLEAN : SaveExcept(rmOk)
ConvertFormatStep == \E outcome \in ConvertOutcomes : ConvertFormat(outcome)
FinallyStep == \E rmOk \in BOOLEAN : Finally(rmOk)

Next ==
    \/ ValidateInputs
    \/ CleanOutputStep
    \/ PrepareContainerStep
    \/ LoopHead
    \/ ResolveLayerName
    \/ SaveFeaturesStep
    \/ SaveExceptStep
    \/ SetProgress
    \/ VerifyContainer
    \/ ConvertFormatStep
    \/ VerifyOutput
    \/ ConvertExcept
    \/ FinallyStep
    \/ Return
    \/ Cancel

Spec == Init /\ [][Next]_vars

\* the steps of the call itself: the caller's thread runs them to the end,
\* each service call returning or failing
ProgramStep ==
    \/ ValidateInputs
    \/ CleanOutputStep
    \/ PrepareContainerStep
    \/ LoopHead
    \/ ResolveLayerName
    \/ SaveFeaturesStep
    \/ SaveExceptStep
    \/ SetProgress
    \/ VerifyContainer
    \/ ConvertFormatStep
    \/ VerifyOutput
    \/ ConvertExcept
    \/ FinallyStep
    \/ Return

SpecFair == Init /\ [][Next]_vars /\ WF_vars(ProgramStep)

\* every service call and every deletion succeeds and nobody cancels
SaveFeaturesOk == SaveFeatures("ok")
ConvertFormatOk == ConvertFormat("ok")
FinallyOk == Finally(TRUE)
CleanOutputOk == CleanOutput(TRUE)
PrepareContainerOk == PrepareContainer(TRUE)

NextLong ==
    \/ ValidateInputs
    \/ CleanOutputOk
    \/ PrepareContainerOk
    \/ LoopHead
    \/ ResolveLayerName
    \/ SaveFeaturesOk
    \/ SetProgress
    \/ VerifyContainer
    \/ ConvertFormatOk
    \/ VerifyOutput
    \/ FinallyOk
    \/ Return

SpecLong == InitLong /\ [][NextLong]_vars

\* ----------------------------------------------------------------- claims
\* the failure kinds of the error taxonomy, by the message raised
FailureKind(r) ==
    IF r.status # "raised" THEN "none"
    ELSE CASE r.exc.text \in {"NoInputLayers", "NoOutputPath"} -> "InvalidInput"
           [] r.exc.text = "AddLayerError" -> "StagingFailure"
           [] r.exc.text \in {"GpkgNotCreated", "KmlNotGenerated"} -> "IntegrityFailure"
           [] r.exc.text = "ConvertError" -> "ConversionFailure"
           [] OTHER -> "other"

PassedValidation == input_layers # <<>> /\ output_kml # ""
RemovalFailed == \E i \in 1..Len(fsLog) : fsLog[i].op = "remove" /\ ~fsLog[i].res
LastSaveFailed ==
    /\ saveLog # <<>>
    /\ saveLog[Len(saveLog)].outcome \in {"error", "error_partial"}
\* the deletion in the handler of the failed layer write failed
HandlerRemovalFailed ==
    /\ LastSaveFailed
    /\ fsLog[Len(fsLog)] = Removal(TempGpkg, FALSE)
\* the names given to the layer-save service so far, and the one about to be
Assigned ==
    [i \in 1..Len(saveLog) |-> saveLog[i].name]
        \o (IF pc = "save" THEN <<layer_name>> ELSE <<>>)

\* C1: a run that passed validation and in which no deletion failed leaves
\* no temporary container behind when it ends, whatever the exit path.
C1_ContainerGoneAtEnd ==
    (pc = "done" /\ PassedValidation /\ ~RemovalFailed) => ~temp_gpkg.exists

\* C1 witness: a cancelled run whose conversion failed ended with the
\* container deleted in the finally clause.
C1_Witness ==
    /\ pc = "done"
    /\ canceled
    /\ ~RemovalFailed
    /\ FailureKind(result) = "ConversionFailure"
    /\ fsLog[Len(fsLog)] = Removal(TempGpkg, TRUE)

\* C2: when a layer write fails and the deletion of the half-written
\* container fails too, the caller still receives the StagingFailure naming
\* the layer's resolved name with the service's cause.
C2_StagingFailureSurvivesRemovalFailure ==
    (pc = "done" /\ HandlerRemovalFailed) =>
        result = Raised(Exc("QgsProcessingException", "AddLayerError",
                            saveLog[Len(saveLog)].name, "SaveError", ""))

\* C3: a success result means that every input layer was handed to the
\* layer-save service and written before the conversion ran.
C3_NoPartialSuccess ==
    result.status = "returned" =>
        /\ Len(saveLog) = Len(input_layers)
        /\ \A i \in 1..Len(saveLog) : saveLog[i].index = i - 1

\* C4: after k layers have been given a name the used-name set has exactly
\* k entries and the k names are pairwise distinct.
C4_UsedNamesDistinct ==
    pc \notin {"start", "clean_output", "prepare"} =>
        /\ Cardinality(used_layer_names) = Len(Assigned)
        /\ used_layer_names = {Assigned[i] : i \in 1..Len(Assigned)}
        /\ \A i, j \in 1..Len(Assigned) : i # j => Assigned[i] # Assigned[j]
        /\ pc = "loop" => Len(Assigned) = current

\* C4 witness: [a, a, a_1] staged as a, a_1, a_1_1.
C4_Witness ==
    /\ input_layers = <<Name("a"), Name("a"), Suffixed(Name("a"), 1)>>
    /\ Len(saveLog) = 3
    /\ Assigned = <<Name("a"), Suffixed(Name("a"), 1),
                    Suffixed(Suffixed(Name("a"), 1), 1)>>

\* C5: the layer-save calls are issued in input order, the first in file
\* mode (0) and every later one in layer mode (1).
C5_WriteModes ==
    \A i \in 1..Len(saveLog) :
        /\ saveLog[i].index = i - 1
        /\ saveLog[i].mode = (IF i = 1 THEN 0 ELSE 1)

\* C5 witness: three calls with modes file, layer, layer.
C5_Witness ==
    /\ Len(saveLog) = 3
    /\ [i \in 1..3 |-> saveLog[i].mode] = <<0, 1, 1>>

\* C6: a failed layer write whose container deletion succeeds ends the run
\* with the StagingFailure naming the name given to the service for that
\* layer; it is the last write, the converter never runs and the container
\* is gone.
C6_StagingFailure ==
    \A i \in 1..Len(saveLog) :
        saveLog[i].outcome \in {"error", "error_partial"} =>
            /\ i = Len(saveLog)
            /\ convertLog = <<>>
            /\ pc \in {"save_except", "done"}
            /\ (pc = "done" /\ ~HandlerRemovalFailed) =>
                  /\ FailureKind(result) = "StagingFailure"
                  /\ result.exc.layer = saveLog[i].name
                  /\ result.exc.layer \in used_layer_names
                  /\ \A j \in 1..(i - 1) : saveLog[j].name # result.exc.layer
                  /\ result.exc.cause = "SaveError"
                  /\ ~temp_gpkg.exists

\* C6 witness: the second of three layers failed midway, its name was
\* suffixed, and the half-written container was deleted.
C6_Witness ==
    /\ pc = "done"
    /\ Len(input_layers) = 3
    /\ Len(saveLog) = 2
    /\ saveLog[2].outcome = "error_partial"
    /\ fsLog[Len(fsLog)] = Removal(TempGpkg, TRUE)
    /\ result.exc.layer # input_layers[2]
    /\ FailureKind(result) = "StagingFailure"

\* C7: all layers staged, the conversion returns without error and without
\* an output file: the failure is an IntegrityFailure reporting the expected
\* path, and the container is deleted.
C7_MissingOutputIsIntegrityFailure ==
    (/\ pc = "done"
     /\ Len(saveLog) = Len(input_layers)
     /\ Len(convertLog) = 1
     /\ convertLog[1].outcome = "silent"
     /\ ~RemovalFailed) =>
        /\ FailureKind(result) = "IntegrityFailure"
        /\ result.exc.path = output_kml
        /\ ~temp_gpkg.exists

\* C8: the last progress value reported in a successful run is 100.
C8_FinalProgressIs100 ==
    result.status = "returned" =>
        /\ progressLog # <<>>
        /\ progressLog[Len(progressLog)] = 100

\* C9: the progress reported after the layer at index i of N is the integer
\* part of 100 * (i + 1) / (N + 1), once per layer and in index order.
C9_StagingProgress ==
    /\ pc = "loop" => Len(progressLog) = current
    /\ \A j \in 1..Len(progressLog) :
           progressLog[j] = (100 * j) \div (Len(input_layers) + 1)

\* C10: with an empty layer list or an empty output path the run fails with
\* InvalidInput and performs no filesystem operation, no layer write and no
\* conversion.
C10_InvalidInputNoSideEffects ==
    /\ [](~PassedValidation =>
            /\ pc \in {"start", "done"}
            /\ fsLog = <<>> /\ saveLog = <<>> /\ convertLog = <<>>
            /\ pc = "done" => FailureKind(result) = "InvalidInput")
    /\ [][~PassedValidation => (kml_file' = kml_file /\ temp_gpkg' = temp_gpkg)]_vars

\* C10 witness: layers given but no output path, a stale destination file
\* and a stale container present, and the run has ended.
C10_Witness ==
    /\ pc = "done"
    /\ input_layers # <<>>
    /\ output_kml = ""
    /\ kml_file = "stale"
    /\ temp_gpkg = StaleGpkg
    /\ result.exc.text = "NoOutputPath"

\* the names given to the layer-save service before the pending call
NamesBefore == {saveLog[i].name : i \in 1..Len(saveLog)}
SavedNames == [i \in 1..Len(saveLog) |-> saveLog[i].name]
\* the deletion in the finally clause failed
FinalRemovalFailed ==
    /\ convertLog # <<>>
    /\ pc \in {"return", "done"}
    /\ fsLog[Len(fsLog)] = Removal(TempGpkg, FALSE)

\* C11: a container missing when the staging loop ends makes the run fail
\* with IntegrityFailure without a conversion; the converter is only ever
\* invoked while the container exists.
C11_MissingContainer ==
    /\ [](pc = "convert" => temp_gpkg.exists)
    /\ [](result.exc.text = "GpkgNotCreated" =>
            /\ convertLog = <<>>
            /\ ~temp_gpkg.exists
            /\ result.exc.path = TempGpkg)
    /\ [][convertLog' # convertLog => temp_gpkg.exists]_vars
    /\ [][(pc = "verify_container" /\ ~temp_gpkg.exists /\ pc' # pc) =>
            /\ pc' = "done"
            /\ FailureKind(result') = "IntegrityFailure"
            /\ result'.exc.text = "GpkgNotCreated"
            /\ convertLog' = <<>>]_vars

\* C11 witness: every layer write returned without producing a file and the
\* run ended with the missing-container failure.
C11_Witness ==
    /\ pc = "done"
    /\ Len(saveLog) = 2
    /\ Len(input_layers) = 2
    /\ \A i \in 1..2 : saveLog[i].outcome = "silent"
    /\ result.exc.text = "GpkgNotCreated"

\* C12: the cancel flag is polled once before each layer write, in index
\* order, and nowhere else; a poll that returns cancelled is the last one,
\* no write follows it and no StagingFailure results; a cancellation that no
\* poll saw does not stop the conversion.
C12_CancellationPolls ==
    /\ Len(pollLog) \in {Len(saveLog), Len(saveLog) + 1}
    /\ \A i \in 1..Len(pollLog) : pollLog[i].index = i - 1
    /\ \A i \in 1..Len(saveLog) :
           /\ pollLog[i].res = FALSE
           /\ saveLog[i].index = i - 1
    /\ \A i \in 1..Len(pollLog) :
           pollLog[i].res =>
               /\ i = Len(pollLog)
               /\ Len(saveLog) = i - 1
               /\ pc \notin {"loop", "resolve", "save", "progress", "save_except"}
               /\ FailureKind(result) # "StagingFailure"
               /\ result.exc.type # "UnboundLocalError"
    /\ (/\ pc = "done"
        /\ Len(saveLog) = Len(input_layers)
        /\ PassedValidation
        /\ ~LastSaveFailed
        /\ result.exc.text # "GpkgNotCreated"
        /\ result.exc.type # "OSError") => Len(convertLog) = 1
    /\ (/\ pc = "done"
        /\ Len(convertLog) = 1
        /\ convertLog[1].outcome = "ok") => result = Returned(output_kml)

\* C12 witness: of three layers the first was written, the poll before the
\* second returned cancelled, and the run has ended.
C12_Witness ==
    /\ pc = "done"
    /\ Len(input_layers) = 3
    /\ [i \in 1..Len(pollLog) |-> pollLog[i].res] = <<FALSE, TRUE>>
    /\ Len(saveLog) = 1

\* C13: a failed deletion in the finally clause leaves the outcome as it
\* was: the destination path after a conversion that produced the output,
\* the conversion's failure otherwise.
C13_CleanupFailureKeepsOutcome ==
    (pc = "done" /\ FinalRemovalFailed) =>
        /\ temp_gpkg.exists
        /\ convertLog[1].outcome = "ok" =>
              result = Returned(output_kml) /\ kml_file = "fresh"
        /\ convertLog[1].outcome = "error" =>
              result = Raised(Exc("QgsProcessingException", "ConvertError",
                                  NoName, "GdalError", ""))
        /\ convertLog[1].outcome = "silent" =>
              result = Raised(Exc("QgsProcessingException", "ConvertError",
                                  NoName, "KmlNotGenerated", output_kml))

\* C13 witness: the conversion service failed, then the deletion in the
\* finally clause failed, and the run has ended.
C13_Witness ==
    /\ pc = "done"
    /\ FinalRemovalFailed
    /\ convertLog[1].outcome = "error"

\* C14: a layer whose original name is unused keeps it; otherwise it gets
\* original_k for the smallest k >= 1 whose candidate is unused:
\* [a, a, a] gives a, a_1, a_2 and [a, a_1, a] gives a, a_1, a_2.
C14_NameResolution ==
    /\ pc = "save" =>
          LET original == input_layers[current + 1]
          IN  IF original \notin NamesBefore
              THEN layer_name = original
              ELSE \E k \in 1..Cardinality(NamesBefore) :
                      /\ layer_name = Suffixed(original, k)
                      /\ layer_name \notin NamesBefore
                      /\ \A j \in 1..(k - 1) : Suffixed(original, j) \in NamesBefore
    /\ (input_layers = <<Name("a"), Name("a"), Name("a")>> /\ Len(saveLog) = 3) =>
          SavedNames = <<Name("a"), Suffixed(Name("a"), 1), Suffixed(Name("a"), 2)>>
    /\ (input_layers = <<Name("a"), Suffixed(Name("a"), 1), Name("a")>>
            /\ Len(saveLog) = 3) =>
          SavedNames = <<Name("a"), Suffixed(Name("a"), 1), Suffixed(Name("a"), 2)>>

\* C14 witness: [a, a_1, a] staged as a, a_1, a_2.
C14_Witness ==
    /\ input_layers = <<Name("a"), Suffixed(Name("a"), 1), Name("a")>>
    /\ SavedNames = <<Name("a"), Suffixed(Name("a"), 1), Suffixed(Name("a"), 2)>>

\* C15: every run ends, and it ends with exactly one of a success result
\* carrying the destination path and a failure; the suffix search tries at
\* most as many suffixes as there are used names.
C15_TerminatesWithOneOutcome ==
    /\ <>(pc = "done")
    /\ [](pc = "done" <=> result.status # "running")
    /\ [](result.status \in {"running", "returned", "raised"})
    /\ [](result.status = "returned" =>
            result.value = output_kml /\ result.exc = NoExc)
    /\ [](result.status = "raised" => result.value = "" /\ result.exc # NoExc)
    /\ [][pc # "done"]_vars
    /\ [](pc = "save" /\ layer_name # input_layers[current + 1] =>
            layer_name.sfx[Len(layer_name.sfx)] <= Cardinality(NamesBefore))

\* C15 witness: [a, a, a] was exported, the third name found at the second
\* suffix, and the run returned.
C15_Witness ==
    /\ pc = "done"
    /\ input_layers = <<Name("a"), Name("a"), Name("a")>>
    /\ layer_name = Suffixed(Name("a"), 2)
    /\ result.status = "returned"

\* C16: the container given to the converter, and the container at any
\* point from the first layer's poll to the conversion, holds only layers
\* written by this run, under names of the used-name set.
C16_NoStaleLayers ==
    /\ \A i \in 1..Len(convertLog) :
           \A l \in convertLog[i].layers :
               l.src = "run" /\ l.name \in used_layer_names
    /\ pc \in {"loop", "resolve", "save", "progress", "save_except",
               "verify_container", "convert"} =>
           \A l \in temp_gpkg.layers : l.src = "run"

\* C16 witness: a stale container was deleted before the loop and the
\* conversion has been called.
C16_Witness ==
    /\ pc = "verify_output"
    /\ convertLog # <<>>
    /\ \E k \in 1..Len(fsLog) : fsLog[k] = Removal(TempGpkg, TRUE)

\* C17: the progress values reported are non-decreasing and lie in 0..100.
C17_ProgressMonotone ==
    /\ \A j \in 1..Len(progressLog) : progressLog[j] \in 0..100
    /\ \A j \in 1..(Len(progressLog) - 1) : progressLog[j] <= progressLog[j + 1]

\* C17 witness: three layers reported 25, 50, 75.
C17_Witness == progressLog = <<25, 50, 75>>

\* C18: the destination file is absent from the end of the output clean-up
\* to the conversion, so the file a successful run found there was written
\* by this run's conversion.
C18_OutputIsFresh ==
    /\ result.status = "returned" =>
          /\ kml_file = "fresh"
          /\ Len(convertLog) = 1
          /\ convertLog[1].outcome = "ok"
    /\ pc \in {"prepare", "loop", "resolve", "save", "progress", "save_except",
               "verify_container", "convert"} => kml_file = "absent"
    /\ (pc = "finally" /\ raised = NoExc) => kml_file = "fresh"
    /\ saveLog # <<>> => kml_file # "stale"

\* C18 witness: a destination file that existed was deleted and the run
\* returned.
C18_Witness ==
    /\ result.status = "returned"
    /\ fsLog[2] = Removal(OutputPath, TRUE)

\* C19: a run that passed validation and failed by a layer-save failure or
\* a missing container, the converter not invoked, leaves no file at the
\* destination.
C19_DestinationGoneAfterEarlyFailure ==
    (/\ pc = "done"
     /\ PassedValidation
     /\ convertLog = <<>>
     /\ LastSaveFailed \/ result.exc.text = "GpkgNotCreated") =>
        kml_file = "absent"

\* C19 witness: the destination file existed, was deleted, and a layer
\* write then failed.
C19_Witness ==
    /\ pc = "done"
    /\ FailureKind(result) = "StagingFailure"
    /\ \E k \in 1..Len(fsLog) : fsLog[k] = Removal(OutputPath, TRUE)

====
